---- MODULE Spec2Model ----
(***************************************************************************)
(* Model of main.py: the MIDI -> OSC bridge for the XR18 mixer.            *)
(*                                                                         *)
(* Python values are tagged records so that values of different Python     *)
(* types can be compared: None is [none |-> TRUE], an int n is             *)
(* [int |-> n], a str is [str |-> s], a float num/den is                   *)
(* [num |-> n, den |-> d], and a dict is [dict |-> items] where items is   *)
(* the sequence of <<key, value>> pairs in insertion order.                *)
(*                                                                         *)
(* Two kinds of text occur.  Text that the program only builds and passes  *)
(* on (activities, OSC paths, field names) is a TLA+ string.  Text that    *)
(* the program compares character by character (control keys, which are    *)
(* sorted) or parses (the operator's answers) is a sequence of             *)
(* one-character strings.                                                  *)
(***************************************************************************)
EXTENDS Integers, Sequences, FiniteSets, TLC

(***************************************************************************)
(* Bounds of the model.                                                    *)
(***************************************************************************)
MaxEvents == 3

(***************************************************************************)
(* Text helpers.                                                           *)
(***************************************************************************)
Digits == <<"0", "1", "2", "3", "4", "5", "6", "7", "8", "9">>

DigitStr(d) == Digits[d + 1]

\* ord(c) for the characters that control keys are made of
Ord(c) ==
  CASE c = "0" -> 48 [] c = "1" -> 49 [] c = "2" -> 50 [] c = "3" -> 51
    [] c = "4" -> 52 [] c = "5" -> 53 [] c = "6" -> 54 [] c = "7" -> 55
    [] c = "8" -> 56 [] c = "9" -> 57 [] c = "_" -> 95

IsDigit(c) == \E d \in 0..9 : c = DigitStr(d)

DigitVal(c) == CHOOSE d \in 0..9 : c = DigitStr(d)

RECURSIVE IntToChars(_)
\* str(n) / f"{n}" of a non-negative int, as a sequence of characters
IntToChars(n) ==
  IF n < 10 THEN <<DigitStr(n)>>
  ELSE IntToChars(n \div 10) \o <<DigitStr(n % 10)>>

RECURSIVE IntToStr(_)
\* the same text as a TLA+ string
IntToStr(n) ==
  IF n < 10 THEN DigitStr(n)
  ELSE IntToStr(n \div 10) \o DigitStr(n % 10)

\* the padding is forgotten
Format02d_NoPad(n) == IntToStr(n)

\* f"{n:02d}": decimal, zero-padded to a width of at least two
Format02d(n) == IF n < 10 THEN "0" \o IntToStr(n) ELSE IntToStr(n)

RECURSIVE StrLess(_, _)
\* a < b on Python strings: lexicographic by code point, a proper prefix first
StrLess(a, b) ==
  IF b = <<>> THEN FALSE
  ELSE IF a = <<>> THEN TRUE
  ELSE IF Ord(a[1]) # Ord(b[1]) THEN Ord(a[1]) < Ord(b[1])
  ELSE StrLess(Tail(a), Tail(b))

IsSpace(c) == c = " "

RECURSIVE LStrip(_)
LStrip(s) == IF s # <<>> /\ IsSpace(s[1]) THEN LStrip(Tail(s)) ELSE s

RECURSIVE RStrip(_)
RStrip(s) ==
  IF s # <<>> /\ IsSpace(s[Len(s)]) THEN RStrip(SubSeq(s, 1, Len(s) - 1)) ELSE s

\* str.strip()
Strip(s) == LStrip(RStrip(s))

LowerChar(c) ==
  CASE c = "A" -> "a" [] c = "U" -> "u" [] c = "X" -> "x" [] c = "M" -> "m"
    [] c = "S" -> "s" [] c = "T" -> "t" [] c = "E" -> "e" [] c = "R" -> "r"
    [] OTHER -> c

\* str.lower()
Lower(s) == [i \in 1..Len(s) |-> LowerChar(s[i])]

RECURSIVE DigitsValue(_, _)
\* value of a run of digits in which single underscores may separate digits;
\* -1 when the run is not of that form
DigitsValue(s, acc) ==
  IF s = <<>> THEN acc
  ELSE IF IsDigit(s[1]) THEN DigitsValue(Tail(s), acc * 10 + DigitVal(s[1]))
  ELSE IF s[1] = "_" /\ Len(s) > 1 /\ IsDigit(s[2]) THEN DigitsValue(Tail(s), acc)
  ELSE -1

\* int(text): [ok |-> TRUE, v |-> n], or [ok |-> FALSE] for ValueError
ParseInt(text) ==
  LET s == Strip(text)
      neg == s # <<>> /\ s[1] = "-"
      body == IF s # <<>> /\ s[1] \in {"+", "-"} THEN Tail(s) ELSE s
      v == IF body = <<>> \/ ~IsDigit(body[1]) THEN -1 ELSE DigitsValue(body, 0)
  IN IF v < 0 THEN [ok |-> FALSE]
     ELSE [ok |-> TRUE, v |-> IF neg THEN 0 - v ELSE v]

(***************************************************************************)
(* Python values and dicts.                                                *)
(***************************************************************************)
PyNone == [none |-> TRUE]

PyInt(n) == [int |-> n]

PyStr(s) == [str |-> s]

PyFloat(n, d) == [num |-> n, den |-> d]

PyDict(items) == [dict |-> items]

EmptyDict == PyDict(<<>>)

\* key in d
Has(d, k) == \E i \in 1..Len(d.dict) : d.dict[i][1] = k

\* d.get(k): the value, or None when the key is missing
Get(d, k) ==
  IF Has(d, k)
  THEN d.dict[CHOOSE i \in 1..Len(d.dict) : d.dict[i][1] = k][2]
  ELSE PyNone

\* d[k] = v: replaces the value in place, or appends a new key at the end
SetItem(d, k, v) ==
  IF Has(d, k)
  THEN PyDict([i \in 1..Len(d.dict) |->
                 IF d.dict[i][1] = k THEN <<k, v>> ELSE d.dict[i]])
  ELSE PyDict(Append(d.dict, <<k, v>>))

\* only None is false: an empty dict passes the test
Truthy_NotNone(v) == "none" \notin DOMAIN v

\* bool(v) for the values the program tests
Truthy(v) ==
  IF "none" \in DOMAIN v THEN FALSE
  ELSE IF "dict" \in DOMAIN v THEN v.dict # <<>>
  ELSE IF "str" \in DOMAIN v THEN v.str # ""
  ELSE IF "int" \in DOMAIN v THEN v.int # 0
  ELSE v.num # 0

RECURSIVE InsertSorted(_, _)
InsertSorted(item, s) ==
  IF s = <<>> THEN <<item>>
  ELSE IF StrLess(item[1], s[1][1]) THEN <<item>> \o s
  ELSE <<s[1]>> \o InsertSorted(item, Tail(s))

RECURSIVE SortItems(_)
SortItems(s) ==
  IF s = <<>> THEN <<>> ELSE InsertSorted(s[1], SortItems(Tail(s)))

\* dict(sorted(d.items())): keys are unique, so the order is by key alone
SortedDict(d) == PyDict(SortItems(d.dict))

(***************************************************************************)
(* controls.json.  The file is absent, or holds a text.  The text that     *)
(* json.dump(controls, f, indent=2) writes is modelled by the JSON         *)
(* document it denotes (null, number, string, object with ordered          *)
(* members) together with its length in characters; a text that is not a   *)
(* JSON document (an empty file, or the tail of a longer text left behind  *)
(* a shorter one) is modelled by its length alone.                         *)
(***************************************************************************)
RECURSIVE JsonDump_IntAsStr(_)
\* numbers are written as their text
JsonDump_IntAsStr(v) ==
  IF "none" \in DOMAIN v THEN [jnull |-> TRUE]
  ELSE IF "int" \in DOMAIN v THEN [jstr |-> IntToStr(v.int)]
  ELSE IF "str" \in DOMAIN v THEN [jstr |-> v.str]
  ELSE [jobj |-> [i \in 1..Len(v.dict) |->
                    <<v.dict[i][1], JsonDump_IntAsStr(v.dict[i][2])>>]]

RECURSIVE JsonDump(_)
\* the document json.dump writes for a Python value
JsonDump(v) ==
  IF "none" \in DOMAIN v THEN [jnull |-> TRUE]
  ELSE IF "int" \in DOMAIN v THEN [jnum |-> v.int]
  ELSE IF "str" \in DOMAIN v THEN [jstr |-> v.str]
  ELSE [jobj |-> [i \in 1..Len(v.dict) |->
                    <<v.dict[i][1], JsonDump(v.dict[i][2])>>]]

RECURSIVE JsonLoad(_)
\* the Python value json.load builds from a document
JsonLoad(j) ==
  IF "jnull" \in DOMAIN j THEN PyNone
  ELSE IF "jnum" \in DOMAIN j THEN PyInt(j.jnum)
  ELSE IF "jstr" \in DOMAIN j THEN PyStr(j.jstr)
  ELSE PyDict([i \in 1..Len(j.jobj) |->
                 <<j.jobj[i][1], JsonLoad(j.jobj[i][2])>>])

\* number of characters of a scalar as json.dump writes it
ScalarLen(j) ==
  IF "jnull" \in DOMAIN j THEN 4
  ELSE IF "jnum" \in DOMAIN j THEN Len(IntToChars(j.jnum))
  ELSE Len(j.jstr) + 2

RECURSIVE FieldsLen(_)
\* the field lines of one entry: four spaces, "name": value, and the newline
FieldsLen(fields) ==
  IF fields = <<>> THEN 0
  ELSE 4 + Len(fields[1][1]) + 4 + ScalarLen(fields[1][2]) + 1
       + FieldsLen(Tail(fields))

\* one mapping entry with indent=2: its "key": { line, one line per field
\* with a comma between fields, the closing brace; the separators between
\* entries are counted by TextLen
EntryLen(m) ==
  2 + Len(m[1]) + 4 + 1 + 1
  + FieldsLen(m[2].jobj) + (Len(m[2].jobj) - 1)
  + 3

RECURSIVE EntriesLen(_)
EntriesLen(ms) ==
  IF ms = <<>> THEN 0 ELSE EntryLen(ms[1]) + EntriesLen(Tail(ms))

\* number of characters of the text of a store document
TextLen(doc) ==
  IF doc.jobj = <<>> THEN 2
  ELSE 2 + EntriesLen(doc.jobj) + (Len(doc.jobj) - 1) * 2 + 2

NoFile == [missing |-> TRUE]

\* a file whose text is the document doc
FileOf(doc) == [doc |-> doc, len |-> TextLen(doc)]

\* a file of len characters that is not a JSON document
Garbled(len) == [garbled |-> TRUE, len |-> len]

\* open('controls.json', 'w'): creates or truncates the file
Truncated == Garbled(0)

IsDoc(f) == "doc" \in DOMAIN f

FileLen(f) == IF "len" \in DOMAIN f THEN f.len ELSE 0

\* closing a file object opened with 'w' after json.dump: the buffered text
\* is written at offset 0 without truncating again, so a longer text that
\* another writer stored since the open keeps its tail
Flush(f, doc) ==
  IF TextLen(doc) < FileLen(f) THEN Garbled(FileLen(f)) ELSE FileOf(doc)

\* save_controls run without interruption
save_controls(controls_) == FileOf(JsonDump(controls_))

\* load_controls: an absent file gives an empty store
load_controls(f) == IF IsDoc(f) THEN JsonLoad(f.doc) ELSE EmptyDict

\* json.load raises on a text that is not a document
LoadRaises(f) == "garbled" \in DOMAIN f

(***************************************************************************)
(* map_control: the questions of the live wizard.  An answer is the text   *)
(* the operator types.                                                     *)
(***************************************************************************)
Master == <<"m", "a", "s", "t", "e", "r">>

Aux == <<"a", "u", "x">>

\* the range test starts at 0
ParseChannel_FromZero(answer) ==
  LET channel_input == Lower(Strip(answer))
      n == ParseInt(channel_input)
  IN IF channel_input = Master THEN [ok |-> TRUE, channel |-> PyStr("master")]
     ELSE IF channel_input = Aux THEN [ok |-> TRUE, channel |-> PyStr("aux")]
     ELSE IF ~n.ok THEN [ok |-> FALSE]
     ELSE IF ~(0 <= n.v /\ n.v <= 16) THEN [ok |-> FALSE]
     ELSE [ok |-> TRUE, channel |-> PyInt(n.v)]

\* the channel question: [ok |-> TRUE, channel |-> c] or [ok |-> FALSE]
ParseChannel(answer) ==
  LET channel_input == Lower(Strip(answer))
      n == ParseInt(channel_input)
  IN IF channel_input = Master THEN [ok |-> TRUE, channel |-> PyStr("master")]
     ELSE IF channel_input = Aux THEN [ok |-> TRUE, channel |-> PyStr("aux")]
     ELSE IF ~n.ok THEN [ok |-> FALSE]
     ELSE IF ~(1 <= n.v /\ n.v <= 16) THEN [ok |-> FALSE]
     ELSE [ok |-> TRUE, channel |-> PyInt(n.v)]

\* the control type question: [ok |-> TRUE, control_type |-> t] or not ok
ParseChoice(answer) ==
  LET choice == ParseInt(answer)
  IN IF ~choice.ok THEN [ok |-> FALSE]
     ELSE IF choice.v \notin {1, 2, 3} THEN [ok |-> FALSE]
     ELSE [ok |-> TRUE,
           control_type |-> CASE choice.v = 1 -> "volume"
                              [] choice.v = 2 -> "mute"
                              [] choice.v = 3 -> "solo"]

\* the osc_paths table of a channel, keyed by control type
osc_paths(channel) ==
  IF channel = PyStr("master")
  THEN [volume |-> "/lr/mix/fader", mute |-> "/lr/mix/on",
        solo |-> "/-stat/solosw/lr"]
  ELSE IF channel = PyStr("aux")
  THEN [volume |-> "/rtn/aux/mix/fader", mute |-> "/rtn/aux/mix/on",
        solo |-> "/rtn/aux/mix/solo"]
  ELSE [volume |-> "/ch/" \o Format02d(channel.int) \o "/mix/fader",
        mute |-> "/ch/" \o Format02d(channel.int) \o "/mix/on",
        solo |-> "/-stat/solosw/" \o Format02d(channel.int)]

\* the dict map_control returns once both answers are accepted
Mapping(channel, control_type) ==
  PyDict(<< <<"activity", PyStr(control_type)>>,
            <<"channel", channel>>,
            <<"osc_path", PyStr(osc_paths(channel)[control_type])>> >>)

\* map_control as a function of the two answers; the second question is
\* not asked when the first answer is rejected
map_control(channel_answer, choice_answer) ==
  LET c == ParseChannel(channel_answer)
      t == ParseChoice(choice_answer)
  IN IF ~c.ok THEN PyNone
     ELSE IF ~t.ok THEN PyNone
     ELSE Mapping(c.channel, t.control_type)

\* the sentinel of a control the operator skipped
Unmapped == PyDict(<< <<"activity", PyNone>> >>)

(***************************************************************************)
(* Raw MIDI messages: msg[0] is the list of the message's bytes.           *)
(***************************************************************************)
\* key = f"{msg[0][0]}_{msg[0][1]}" if len(msg[0]) > 1 else str(msg[0][0])
KeyOf(bytes) ==
  IF Len(bytes) > 1
  THEN IntToChars(bytes[1]) \o <<"_">> \o IntToChars(bytes[2])
  ELSE IntToChars(bytes[1])

\* learn mode: value = msg[0][2] if len(msg[0]) > 2 else None
LearnValue(bytes) == IF Len(bytes) > 2 THEN PyInt(bytes[3]) ELSE PyNone

\* normal mode: value = msg[0][2] if len(msg[0]) > 2 else 0
NormalValue(bytes) == IF Len(bytes) > 2 THEN bytes[3] ELSE 0

(***************************************************************************)
(* The inputs the model draws from.                                        *)
(***************************************************************************)
\* raw messages delivered in normal mode
NormalMsgs ==
  { <<>>, <<144>>, <<176, 20>>,
    <<144, 60, 0>>, <<144, 60, 64>>, <<144, 60, 127>>,
    <<176, 20, 0>>, <<176, 20, 127>>,
    <<176, 7, 0>>, <<176, 7, 127>>,
    <<176, 9, 0>>, <<176, 9, 127>>,
    <<145, 1, 127>> }

\* raw messages delivered in a learn session
LearnMsgs ==
  { <<>>, <<144>>, <<176, 7, 0>>, <<176, 7, 127>>, <<176, 20, 127>> }

\* what the operator types at the channel question of a learn session
ChannelAnswers == { <<"5">>, <<" ", "M", "A", "S", "T", "E", "R", " ">>, <<"1", "7">> }

\* what the operator types at the control type question of a learn session
ChoiceAnswers == { <<"2">>, <<"x">> }

\* what the operator types when asked for another XR18 address
IpAnswers == { "", "10.0.0.2" }

StoreA ==
  PyDict(<< <<KeyOf(<<144, 60>>), Mapping(PyInt(5), "volume")>>,
            <<KeyOf(<<176, 20>>), Mapping(PyStr("master"), "mute")>>,
            <<KeyOf(<<176, 7>>), Mapping(PyStr("aux"), "solo")>>,
            <<KeyOf(<<176, 9>>), Unmapped>> >>)

StoreB ==
  PyDict(<< <<KeyOf(<<176, 7>>), Mapping(PyInt(7), "mute")>>,
            <<KeyOf(<<144>>), Unmapped>> >>)

\* controls.json when the program starts: absent, or as an earlier run left it
InitFiles ==
  { NoFile, save_controls(EmptyDict), save_controls(StoreA), save_controls(StoreB) }

(***************************************************************************)
(* State.                                                                  *)
(***************************************************************************)
VARIABLES
  learn_mode,        \* "--learn" in sys.argv
  force_learn_mode,  \* "--force-learn" in sys.argv
  pc,                \* where the main thread is
  status,            \* how the process ended, "" while it runs
  xr18_ip,           \* config['xr18_ip']
  port_open,         \* the MIDI input port is open
  callback,          \* the callback registered with midiin: none, learn, normal
  controls,          \* the in-memory ControlStore
  file,              \* controls.json
  button_states,     \* the toggle table of normal mode
  osc,               \* the OSC messages sent, oldest first
  log,               \* normal mode: the events delivered, oldest first
  cb,                \* learn session: where the callback thread is
  sorted_controls,   \* the snapshot of the learn session's signal handler
  reported           \* the count the signal handler printed, -1 before

vars ==
  << learn_mode, force_learn_mode, pc, status, xr18_ip, port_open, callback,
     controls, file, button_states, osc, log, cb, sorted_controls,
     reported >>

Idle == [pc |-> "idle"]

\* only one of the two learn flags is tested
NormalMode_OneFlag == ~learn_mode

\* main, line 272: the run is in normal mode
NormalMode == ~learn_mode /\ ~force_learn_mode

Init ==
  /\ learn_mode \in BOOLEAN
  /\ force_learn_mode \in BOOLEAN
  /\ pc = IF NormalMode THEN "probe" ELSE "devices"
  /\ status = ""
  /\ xr18_ip = "192.168.1.100"
  /\ port_open = FALSE
  /\ callback = "none"
  /\ controls = EmptyDict
  /\ file \in InitFiles
  /\ button_states = <<>>
  /\ osc = <<>>
  /\ log = <<>>
  /\ cb = Idle
  /\ sorted_controls = EmptyDict
  /\ reported = -1

Alive == status = ""

(***************************************************************************)
(* main: start-up.  config.json is not part of the state: the program      *)
(* reads it once and nothing modelled here depends on what it holds.       *)
(***************************************************************************)
XRemote == <<"/xremote", PyNone>>

\* /xremote is sent with every probe, whatever the probe finds
CheckConnection_SendFirst(reachable) ==
  /\ Alive /\ pc = "probe"
  /\ osc' = Append(osc, XRemote)
  /\ pc' = IF reachable THEN "devices" ELSE "prompt"
  /\ UNCHANGED << learn_mode, force_learn_mode, status, xr18_ip, port_open,
                  callback, controls, file, button_states, log, cb, sorted_controls, reported >>

\* main, lines 274-291: one probe of the XR18; a reachable mixer ends the
\* loop, the OSC client is set up and /xremote is sent
CheckConnection(reachable) ==
  /\ Alive /\ pc = "probe"
  /\ IF reachable
     THEN /\ osc' = Append(osc, XRemote)
          /\ pc' = "devices"
     ELSE /\ pc' = "prompt"
          /\ UNCHANGED osc
  /\ UNCHANGED << learn_mode, force_learn_mode, status, xr18_ip, port_open,
                  callback, controls, file, button_states, log, cb, sorted_controls, reported >>

\* main, lines 281-285: the operator's answer after a failed probe
EnterIp(new_ip) ==
  /\ Alive /\ pc = "prompt"
  /\ IF new_ip = ""
     THEN /\ pc' = "returned"
          /\ status' = "aborted"
          /\ UNCHANGED xr18_ip
     ELSE /\ xr18_ip' = new_ip
          /\ pc' = "probe"
          /\ UNCHANGED status
  /\ UNCHANGED << learn_mode, force_learn_mode, port_open, callback, controls,
                  file, button_states, osc, log, cb, sorted_controls,
                  reported >>

\* main, lines 293-318 and learn_controls, lines 201-225: the device is
\* selected and opened, the store is loaded and the callback registered;
\* found is FALSE when select_device returns None
OpenDevice(found) ==
  /\ Alive /\ pc = "devices"
  /\ IF ~found
     THEN /\ pc' = "returned"
          /\ status' = "no_device"
          /\ UNCHANGED << port_open, callback, controls >>
     ELSE IF LoadRaises(file)
     THEN /\ pc' = "crashed"
          /\ status' = "crashed"
          /\ port_open' = TRUE
          /\ UNCHANGED << callback, controls >>
     ELSE IF learn_mode \/ force_learn_mode
     THEN /\ controls' = load_controls(file)
          /\ port_open' = TRUE
          /\ callback' = "learn"
          /\ pc' = "loop"
          /\ UNCHANGED status
     ELSE /\ controls' = load_controls(file)
          /\ IF ~Truthy(controls')
             THEN /\ port_open' = FALSE
                  /\ pc' = "returned"
                  /\ status' = "no_controls"
                  /\ UNCHANGED callback
             ELSE /\ port_open' = TRUE
                  /\ callback' = "normal"
                  /\ pc' = "loop"
                  /\ UNCHANGED status
  /\ UNCHANGED << learn_mode, force_learn_mode, xr18_ip, file, button_states,
                  osc, log, cb, sorted_controls, reported >>

(***************************************************************************)
(* Normal mode.  The callback runs on the driver's thread; it shares no    *)
(* state with the signal handler, so one invocation is one step.           *)
(***************************************************************************)
\* button_states.get(key, False)
StateOf(states, key) == IF key \in DOMAIN states THEN states[key] ELSE FALSE

\* one state shared by every control that has been pressed
SetState_Shared(states, key, new_state) ==
  [k \in (DOMAIN states) \cup {key} |-> new_state]

\* the new state is computed but not stored
SetState_Lost(states, key, new_state) == states

\* button_states[key] = new_state
SetState(states, key, new_state) ==
  [k \in (DOMAIN states) \cup {key} |-> IF k = key THEN new_state ELSE states[k]]

\* main.midi_callback, line 328: the event's control has an OSC target
HasTarget(controls_, key) ==
  Has(controls_, key) /\ Truthy(Get(Get(controls_, key), "osc_path"))

\* the value is scaled by the wrong range
Normalize_128(value) == PyFloat(value, 128)

\* main.midi_callback, line 333: value / 127.0
Normalize(value) == PyFloat(value, 127)

\* the inversion of the XR18's mute is forgotten
ToggleValue_Plain(activity, new_state) ==
  IF new_state THEN PyInt(1) ELSE PyInt(0)

\* main.midi_callback, lines 342-345: the value a toggle sends
ToggleValue(activity, new_state) ==
  IF activity = PyStr("mute")
  THEN (IF new_state THEN PyInt(0) ELSE PyInt(1))
  ELSE (IF new_state THEN PyInt(1) ELSE PyInt(0))

\* the release of a button is taken for a press
IsPress_Unfiltered(activity, value) ==
  activity \in {PyStr("mute"), PyStr("solo")}

\* main.midi_callback, line 336: a mute or solo button was pressed
IsPress(activity, value) ==
  activity \in {PyStr("mute"), PyStr("solo")} /\ value > 0

\* the toggle table is updated before the store is consulted
Translate_ToggleFirst(controls_, states, bytes) ==
  IF bytes = <<>> THEN [states |-> states, out |-> <<>>]
  ELSE
    LET key == KeyOf(bytes)
        value == NormalValue(bytes)
        new_state == ~StateOf(states, key)
        flipped == IF value > 0 THEN SetState(states, key, new_state) ELSE states
    IN IF ~HasTarget(controls_, key) THEN [states |-> flipped, out |-> <<>>]
       ELSE
         LET osc_path == Get(Get(controls_, key), "osc_path").str
             activity == Get(Get(controls_, key), "activity")
         IN IF activity = PyStr("volume")
            THEN [states |-> states, out |-> << <<osc_path, Normalize(value)>> >>]
            ELSE IF IsPress(activity, value)
            THEN [states |-> flipped,
                  out |-> << <<osc_path, ToggleValue(activity, new_state)>> >>]
            ELSE [states |-> states, out |-> <<>>]

\* main.midi_callback, lines 323-348: the toggle table after the event and
\* the messages it sends
Translate(controls_, states, bytes) ==
  IF bytes = <<>> THEN [states |-> states, out |-> <<>>]
  ELSE
    LET key == KeyOf(bytes)
        value == NormalValue(bytes)
    IN IF ~HasTarget(controls_, key) THEN [states |-> states, out |-> <<>>]
       ELSE
         LET osc_path == Get(Get(controls_, key), "osc_path").str
             activity == Get(Get(controls_, key), "activity")
             new_state == ~StateOf(states, key)
         IN IF activity = PyStr("volume")
            THEN [states |-> states, out |-> << <<osc_path, Normalize(value)>> >>]
            ELSE IF IsPress(activity, value)
            THEN [states |-> SetState(states, key, new_state),
                  out |-> << <<osc_path, ToggleValue(activity, new_state)>> >>]
            ELSE [states |-> states, out |-> <<>>]

\* main.midi_callback: the driver delivers one message
main_midi_callback(bytes) ==
  /\ Alive /\ pc = "loop" /\ callback = "normal"
  /\ Len(log) < MaxEvents
  /\ LET r == Translate(controls, button_states, bytes)
     IN /\ button_states' = r.states
        /\ osc' = osc \o r.out
        /\ log' = Append(log, [bytes |-> bytes,
                               before |-> button_states,
                               after |-> r.states,
                               out |-> r.out])
  /\ UNCHANGED << learn_mode, force_learn_mode, pc, status, xr18_ip, port_open,
                  callback, controls, file, cb, sorted_controls,
                  reported >>

\* the handler saves the sorted store as the learn session's handler does
main_signal_handler_Saves ==
  /\ Alive /\ pc = "loop" /\ callback = "normal"
  /\ callback' = "none"
  /\ file' = save_controls(SortedDict(controls))
  /\ pc' = "exited"
  /\ status' = "exit0"
  /\ UNCHANGED << learn_mode, force_learn_mode, xr18_ip, port_open, controls,
                  button_states, osc, log, cb, sorted_controls, reported >>

\* main.signal_handler, lines 352-355
main_signal_handler ==
  /\ Alive /\ pc = "loop" /\ callback = "normal"
  /\ callback' = "none"
  /\ pc' = "exited"
  /\ status' = "exit0"
  /\ UNCHANGED << learn_mode, force_learn_mode, xr18_ip, port_open, controls,
                  file, button_states, osc, log, cb, sorted_controls,
                  reported >>

(***************************************************************************)
(* Learn session.  The callback runs on the driver's thread and blocks in  *)
(* input() while the operator answers; the signal handler runs on the main *)
(* thread.  Both write controls.json, and the callback writes the store    *)
(* the handler reads, so each is split at its accesses to store and file.  *)
(* The two questions of map_control are one step: nothing shared is        *)
(* touched between them.                                                   *)
(***************************************************************************)
\* the force-learn flag is not consulted
Qualifies_NoForce(controls_, key, force_learn) ==
  \/ ~Has(controls_, key)
  \/ Get(Get(controls_, key), "activity") = PyNone

\* learn_controls.midi_callback, line 215
Qualifies(controls_, key, force_learn) ==
  \/ ~Has(controls_, key)
  \/ Get(Get(controls_, key), "activity") = PyNone
  \/ force_learn

\* the value of the event is not tested
learn_midi_callback_NoZeroTest(bytes) ==
  /\ Alive /\ callback = "learn" /\ cb = Idle
  /\ LET elicit == /\ bytes # <<>>
                   /\ Qualifies(controls, KeyOf(bytes), force_learn_mode)
     IN cb' = IF elicit THEN [pc |-> "eliciting", key |-> KeyOf(bytes)]
              ELSE Idle
  /\ UNCHANGED << learn_mode, force_learn_mode, pc, status, xr18_ip, port_open,
                  callback, controls, file, button_states, osc, log,
                  sorted_controls, reported >>

\* learn_controls.midi_callback, lines 206-216: the driver delivers one
\* message; a qualifying one starts the elicitation
learn_midi_callback(bytes) ==
  /\ Alive /\ callback = "learn" /\ cb = Idle
  /\ LET elicit == /\ bytes # <<>>
                   /\ LearnValue(bytes) # PyInt(0)
                   /\ Qualifies(controls, KeyOf(bytes), force_learn_mode)
     IN cb' = IF elicit THEN [pc |-> "eliciting", key |-> KeyOf(bytes)]
              ELSE Idle
  /\ UNCHANGED << learn_mode, force_learn_mode, pc, status, xr18_ip, port_open,
                  callback, controls, file, button_states, osc, log,
                  sorted_controls, reported >>

\* learn_controls.midi_callback, line 217: map_control returns
Elicit(channel_answer, choice_answer) ==
  /\ Alive /\ cb.pc = "eliciting"
  /\ cb' = [pc |-> "got", key |-> cb.key,
            mapping |-> map_control(channel_answer, choice_answer)]
  /\ UNCHANGED << learn_mode, force_learn_mode, pc, status, xr18_ip, port_open,
                  callback, controls, file, button_states, osc, log, sorted_controls, reported >>

\* a cancelled elicitation leaves an entry that exists as it is
WriteEntry_CancelKeeps ==
  /\ Alive /\ cb.pc = "got"
  /\ IF Truthy(cb.mapping)
     THEN /\ controls' = SetItem(controls, cb.key, cb.mapping)
          /\ cb' = [pc |-> "save_open", key |-> cb.key]
     ELSE /\ controls' = IF Has(controls, cb.key) THEN controls
                         ELSE SetItem(controls, cb.key, Unmapped)
          /\ cb' = Idle
  /\ UNCHANGED << learn_mode, force_learn_mode, pc, status, xr18_ip, port_open,
                  callback, file, button_states, osc, log, sorted_controls,
                  reported >>

\* the store is not saved after a successful elicitation
WriteEntry_NoSave ==
  /\ Alive /\ cb.pc = "got"
  /\ controls' = SetItem(controls, cb.key,
                         IF Truthy(cb.mapping) THEN cb.mapping ELSE Unmapped)
  /\ cb' = Idle
  /\ UNCHANGED << learn_mode, force_learn_mode, pc, status, xr18_ip, port_open,
                  callback, file, button_states, osc, log, sorted_controls,
                  reported >>

\* learn_controls.midi_callback, lines 218-223: the entry is written
WriteEntry ==
  /\ Alive /\ cb.pc = "got"
  /\ IF Truthy(cb.mapping)
     THEN /\ controls' = SetItem(controls, cb.key, cb.mapping)
          /\ cb' = [pc |-> "save_open", key |-> cb.key]
     ELSE /\ controls' = SetItem(controls, cb.key, Unmapped)
          /\ cb' = Idle
  /\ UNCHANGED << learn_mode, force_learn_mode, pc, status, xr18_ip, port_open,
                  callback, file, button_states, osc, log, sorted_controls,
                  reported >>

\* save_controls called at line 220: line 42 opens the file for writing
CallbackOpen ==
  /\ Alive /\ cb.pc = "save_open"
  /\ file' = Truncated
  /\ cb' = [cb EXCEPT !.pc = "save_dump"]
  /\ UNCHANGED << learn_mode, force_learn_mode, pc, status, xr18_ip, port_open,
                  callback, controls, button_states, osc, log, sorted_controls, reported >>

\* save_controls called at line 220: line 43 dumps the store, the file closes
CallbackDump ==
  /\ Alive /\ cb.pc = "save_dump"
  /\ file' = Flush(file, JsonDump(controls))
  /\ cb' = Idle
  /\ UNCHANGED << learn_mode, force_learn_mode, pc, status, xr18_ip, port_open,
                  callback, controls, button_states, osc, log, sorted_controls, reported >>

\* learn_controls.signal_handler, line 228: SIGINT arrives in the busy loop
Interrupt ==
  /\ Alive /\ pc = "loop" /\ callback = "learn"
  /\ callback' = "none"
  /\ pc' = "h_sort"
  /\ UNCHANGED << learn_mode, force_learn_mode, status, xr18_ip, port_open,
                  controls, file, button_states, osc, log, cb, sorted_controls, reported >>

\* learn_controls.signal_handler, line 229
HandlerSort ==
  /\ Alive /\ pc = "h_sort"
  /\ sorted_controls' = SortedDict(controls)
  /\ pc' = "h_open"
  /\ UNCHANGED << learn_mode, force_learn_mode, status, xr18_ip, port_open,
                  callback, controls, file, button_states, osc, log, cb, reported >>

\* save_controls called at line 230: line 42
HandlerOpen ==
  /\ Alive /\ pc = "h_open"
  /\ file' = Truncated
  /\ pc' = "h_dump"
  /\ UNCHANGED << learn_mode, force_learn_mode, status, xr18_ip, port_open,
                  callback, controls, button_states, osc, log, cb, sorted_controls, reported >>

\* save_controls called at line 230: line 43
HandlerDump ==
  /\ Alive /\ pc = "h_dump"
  /\ file' = Flush(file, JsonDump(sorted_controls))
  /\ pc' = "h_exit"
  /\ UNCHANGED << learn_mode, force_learn_mode, status, xr18_ip, port_open,
                  callback, controls, button_states, osc, log, cb, sorted_controls, reported >>

\* learn_controls.signal_handler, lines 231-232: the count is printed and
\* sys.exit(0) ends the process, the callback thread with it
HandlerExit ==
  /\ Alive /\ pc = "h_exit"
  /\ reported' = Len(sorted_controls.dict)
  /\ pc' = "exited"
  /\ status' = "exit0"
  /\ UNCHANGED << learn_mode, force_learn_mode, xr18_ip, port_open, callback,
                  controls, file, button_states, osc, log, cb, sorted_controls >>

\* the process is stopped (kill -9, power loss) before SIGINT was handled
Crash ==
  /\ Alive /\ pc = "loop" /\ callback = "learn"
  /\ pc' = "crashed"
  /\ status' = "crashed"
  /\ UNCHANGED << learn_mode, force_learn_mode, xr18_ip, port_open, callback,
                  controls, file, button_states, osc, log, cb, sorted_controls, reported >>

(***************************************************************************)
(* The program.                                                            *)
(***************************************************************************)
Next ==
  \/ \E reachable \in BOOLEAN : CheckConnection(reachable)
  \/ \E new_ip \in IpAnswers : EnterIp(new_ip)
  \/ \E found \in BOOLEAN : OpenDevice(found)
  \/ \E bytes \in NormalMsgs : main_midi_callback(bytes)
  \/ main_signal_handler
  \/ \E bytes \in LearnMsgs : learn_midi_callback(bytes)
  \/ \E a \in ChannelAnswers, b \in ChoiceAnswers : Elicit(a, b)
  \/ WriteEntry
  \/ CallbackOpen
  \/ CallbackDump
  \/ Interrupt
  \/ HandlerSort
  \/ HandlerOpen
  \/ HandlerDump
  \/ HandlerExit
  \/ Crash

Spec == Init /\ [][Next]_vars

(***************************************************************************)
(* Properties of normal mode.  They read the log of delivered events: the  *)
(* bytes of each, the toggle table before and after it, and what it sent.  *)
(***************************************************************************)
Presses == {i \in DOMAIN log : Len(log[i].bytes) > 2 /\ log[i].bytes[3] > 0}

Releases == {i \in DOMAIN log : log[i].bytes # <<>> /\ i \notin Presses}

\* the events on controls the store maps to the activity
EventsOn(activity) ==
  {i \in DOMAIN log :
     /\ log[i].bytes # <<>>
     /\ Has(controls, KeyOf(log[i].bytes))
     /\ Get(Get(controls, KeyOf(log[i].bytes)), "activity") = PyStr(activity)}

\* the events on controls without a store entry or with the Unmapped sentinel
EventsUnmapped ==
  {i \in DOMAIN log :
     /\ log[i].bytes # <<>>
     /\ \/ ~Has(controls, KeyOf(log[i].bytes))
        \/ Get(controls, KeyOf(log[i].bytes)) = Unmapped}

PathOfEvent(i) == Get(Get(controls, KeyOf(log[i].bytes)), "osc_path").str

\* the toggle state of the event's control, false while it has none
Toggled(states, i) ==
  KeyOf(log[i].bytes) \in DOMAIN states /\ states[KeyOf(log[i].bytes)]

ToggledAfter(i) == Toggled(log[i].after, i)

ToggledBefore(i) == Toggled(log[i].before, i)

\* C1: every press on a Mute control sends 0 when the control's toggle state
\* after the flip is true and 1 when it is false; every press on a Solo
\* control sends 1 when it is true and 0 when it is false.
MuteInversion ==
  /\ \A i \in Presses \cap EventsOn("mute") :
       /\ ToggledAfter(i) = ~ToggledBefore(i)
       /\ log[i].out =
            << <<PathOfEvent(i), PyInt(IF ToggledAfter(i) THEN 0 ELSE 1)>> >>
  /\ \A i \in Presses \cap EventsOn("solo") :
       /\ ToggledAfter(i) = ~ToggledBefore(i)
       /\ log[i].out =
            << <<PathOfEvent(i), PyInt(IF ToggledAfter(i) THEN 1 ELSE 0)>> >>

\* a Mute control was pressed into both states and a Solo control was pressed
MuteInversionWitness ==
  /\ \E i \in Presses \cap EventsOn("mute") : ToggledAfter(i)
  /\ \E i \in Presses \cap EventsOn("mute") : ~ToggledAfter(i)
  /\ \E i \in Presses \cap EventsOn("solo") : ToggledAfter(i)

\* C2: an event with value 0 on a Mute or Solo control leaves the toggle
\* table unchanged and sends nothing; an event with value 0 on a Volume
\* control sends one message carrying 0.0 to the control's osc_path.
ReleaseFiltering ==
  /\ \A i \in Releases \cap (EventsOn("mute") \cup EventsOn("solo")) :
       /\ log[i].after = log[i].before
       /\ log[i].out = <<>>
  /\ \A i \in Releases \cap EventsOn("volume") :
       /\ Len(log[i].out) = 1
       /\ log[i].out[1][1] = PathOfEvent(i)
       /\ log[i].out[1][2].num = 0
       /\ log[i].out[1][2].den # 0

\* a pressed Mute control was released, and a fader reached 0
ReleaseFilteringWitness ==
  /\ \E i \in Releases \cap EventsOn("mute") : ToggledBefore(i)
  /\ \E i \in Releases \cap EventsOn("volume") : TRUE

\* presses i < j of the same control with no press of it in between
ConsecutivePresses(i, j) ==
  /\ i \in Presses /\ j \in Presses /\ i < j
  /\ KeyOf(log[i].bytes) = KeyOf(log[j].bytes)
  /\ \A m \in Presses : i < m /\ m < j => KeyOf(log[m].bytes) # KeyOf(log[i].bytes)

FirstPress(i) ==
  \A m \in Presses : m < i => KeyOf(log[m].bytes) # KeyOf(log[i].bytes)

\* C3: two consecutive presses of the same Mute control, whatever releases
\* and events of other controls lie between them, flip its toggle state
\* twice: the state is again what it was before the first press, each press
\* sends exactly one message and the second sends the opposite value; from an
\* empty toggle table the first sends 0 and the second 1.
DoublePress ==
  \A i \in EventsOn("mute"), j \in EventsOn("mute") :
    ConsecutivePresses(i, j) =>
      /\ ToggledAfter(j) = ToggledBefore(i)
      /\ Len(log[i].out) = 1 /\ Len(log[j].out) = 1
      /\ log[i].out[1][2] \in {PyInt(0), PyInt(1)}
      /\ log[j].out[1][2] = PyInt(1 - log[i].out[1][2].int)
      /\ FirstPress(i) =>
           log[i].out[1][2] = PyInt(0) /\ log[j].out[1][2] = PyInt(1)

\* a Mute control was pressed, released and pressed again
DoublePressWitness ==
  \E i \in EventsOn("mute"), j \in EventsOn("mute") :
    /\ ConsecutivePresses(i, j) /\ FirstPress(i)
    /\ \E m \in Releases : i < m /\ m < j

\* C4: an event whose identity has no store entry, or whose entry is the
\* Unmapped sentinel, sends nothing and leaves the toggle table unchanged,
\* whatever its value.
UnmappedDrop ==
  \A i \in EventsUnmapped :
    /\ log[i].out = <<>>
    /\ log[i].after = log[i].before

\* a press on an unknown control and a press on a skipped control were dropped
UnmappedDropWitness ==
  /\ \E i \in Presses \cap EventsUnmapped : ~Has(controls, KeyOf(log[i].bytes))
  /\ \E i \in Presses \cap EventsUnmapped : Has(controls, KeyOf(log[i].bytes))
  /\ \E i \in Releases \cap EventsUnmapped : TRUE

\* C5: every event on a Volume control with value v sends exactly one
\* message to the control's osc_path carrying v/127, which is 0 for v = 0,
\* 1 for v = 127 and within [0, 1], and leaves the toggle table unchanged.
VolumeNormalized ==
  \A i \in EventsOn("volume") :
    LET v == IF Len(log[i].bytes) > 2 THEN log[i].bytes[3] ELSE 0
    IN /\ Len(log[i].out) = 1
       /\ log[i].out[1][1] = PathOfEvent(i)
       /\ log[i].out[1][2].den > 0
       /\ log[i].out[1][2].num * 127 = v * log[i].out[1][2].den
       /\ 0 <= log[i].out[1][2].num
       /\ log[i].out[1][2].num <= log[i].out[1][2].den
       /\ log[i].after = log[i].before

\* a fader was moved to 0, to 64 and to 127
VolumeNormalizedWitness ==
  \A v \in {0, 64, 127} :
    \E i \in EventsOn("volume") : Len(log[i].bytes) > 2 /\ log[i].bytes[3] = v

RECURSIVE SentUpTo(_)
\* the messages of the first n delivered events, in order
SentUpTo(n) == IF n = 0 THEN <<>> ELSE SentUpTo(n - 1) \o log[n].out

\* the events the engine translates: any event on a Volume control and any
\* press on a Mute or Solo control
Translated ==
  EventsOn("volume") \cup (Presses \cap (EventsOn("mute") \cup EventsOn("solo")))

\* C10: in learn and force-learn mode no OSC message is ever sent.  In
\* normal mode nothing is sent while the reachability loop runs or after the
\* operator left it; from then on the first message is /xremote without
\* payload, no other message is /xremote, and the messages after it are, in
\* order, one per translated event and none for any other event.
XRemoteOnce ==
  /\ (learn_mode \/ force_learn_mode) => osc = <<>>
  /\ (~learn_mode /\ ~force_learn_mode) =>
       IF pc \in {"probe", "prompt"} \/ status = "aborted"
       THEN osc = <<>>
       ELSE /\ osc # <<>>
            /\ osc[1] = <<"/xremote", PyNone>>
            /\ \A i \in 2..Len(osc) : osc[i][1] # "/xremote"
            /\ Tail(osc) = SentUpTo(Len(log))
            /\ \A i \in DOMAIN log :
                 Len(log[i].out) = (IF i \in Translated THEN 1 ELSE 0)
            /\ Len(osc) = 1 + Cardinality(Translated)

\* normal mode sent /xremote and then translated two of three events
XRemoteOnceWitness ==
  /\ ~learn_mode /\ ~force_learn_mode
  /\ Len(log) = 3
  /\ Len(osc) = 3
  /\ osc[1] = XRemote

(***************************************************************************)
(* The wizard on its own: map_control applied to every pair of answers.    *)
(***************************************************************************)
\* answers to the channel question: every numeral from 0 to 17, the two
\* tokens as typed and in other spellings, and texts that are neither
WizardChannelAnswers ==
  {IntToChars(n) : n \in 0..17}
  \cup { Master, Aux, <<"A", "u", "x">>, <<" ", "M", "A", "S", "T", "E", "R", " ">>,
         <<" ", "7", " ">>, <<"0", "7">>, <<"-", "1">>, <<"x">>, <<>> }

\* answers to the control type question
WizardChoiceAnswers ==
  { <<"1">>, <<"2">>, <<"3">>, <<"0">>, <<"4">>, <<" ", "2">>, <<"x">>, <<>> }

WizardKeys == {KeyOf(bytes) : bytes \in LearnMsgs \ {<<>>}}

\* map_control(key), lines 137-197, asked once with the two answers
AskWizard(key, channel_answer, choice_answer) ==
  /\ cb' = [pc |-> "asked", key |-> key,
            channel_answer |-> channel_answer,
            choice_answer |-> choice_answer,
            mapping |-> map_control(channel_answer, choice_answer)]
  /\ UNCHANGED << learn_mode, force_learn_mode, pc, status, xr18_ip, port_open,
                  callback, controls, file, button_states, osc, log,
                  sorted_controls, reported >>

InitWizard ==
  /\ learn_mode = TRUE
  /\ force_learn_mode = FALSE
  /\ pc = "loop"
  /\ status = ""
  /\ xr18_ip = "192.168.1.100"
  /\ port_open = TRUE
  /\ callback = "learn"
  /\ controls = EmptyDict
  /\ file = NoFile
  /\ button_states = <<>>
  /\ osc = <<>>
  /\ log = <<>>
  /\ cb = Idle
  /\ sorted_controls = EmptyDict
  /\ reported = -1

NextWizard ==
  \E key \in WizardKeys, a \in WizardChannelAnswers, b \in WizardChoiceAnswers :
    AskWizard(key, a, b)

SpecWizard == InitWizard /\ [][NextWizard]_vars

\* the numerals of the channels 1 to 16 as the operator types them
Numerals ==
  << <<"1">>,
     <<"2">>,
     <<"3">>,
     <<"4">>,
     <<"5">>,
     <<"6">>,
     <<"7">>,
     <<"8">>,
     <<"9">>,
     <<"1", "0">>,
     <<"1", "1">>,
     <<"1", "2">>,
     <<"1", "3">>,
     <<"1", "4">>,
     <<"1", "5">>,
     <<"1", "6">> >>

\* the derivation table of the numbered channels, written out
TableVolume ==
  << "/ch/01/mix/fader", "/ch/02/mix/fader", "/ch/03/mix/fader", "/ch/04/mix/fader",
       "/ch/05/mix/fader", "/ch/06/mix/fader", "/ch/07/mix/fader", "/ch/08/mix/fader",
       "/ch/09/mix/fader", "/ch/10/mix/fader", "/ch/11/mix/fader", "/ch/12/mix/fader",
       "/ch/13/mix/fader", "/ch/14/mix/fader", "/ch/15/mix/fader", "/ch/16/mix/fader" >>

TableMute ==
  << "/ch/01/mix/on", "/ch/02/mix/on", "/ch/03/mix/on", "/ch/04/mix/on",
       "/ch/05/mix/on", "/ch/06/mix/on", "/ch/07/mix/on", "/ch/08/mix/on",
       "/ch/09/mix/on", "/ch/10/mix/on", "/ch/11/mix/on", "/ch/12/mix/on",
       "/ch/13/mix/on", "/ch/14/mix/on", "/ch/15/mix/on", "/ch/16/mix/on" >>

TableSolo ==
  << "/-stat/solosw/01", "/-stat/solosw/02", "/-stat/solosw/03", "/-stat/solosw/04",
       "/-stat/solosw/05", "/-stat/solosw/06", "/-stat/solosw/07", "/-stat/solosw/08",
       "/-stat/solosw/09", "/-stat/solosw/10", "/-stat/solosw/11", "/-stat/solosw/12",
       "/-stat/solosw/13", "/-stat/solosw/14", "/-stat/solosw/15", "/-stat/solosw/16" >>

\* the table's rows for Master and Aux
TableMaster == <<"/lr/mix/fader", "/lr/mix/on", "/-stat/solosw/lr">>

TableAux == <<"/rtn/aux/mix/fader", "/rtn/aux/mix/on", "/rtn/aux/mix/solo">>

\* the table's osc_path for a numbered channel and a control type
\* (1 volume, 2 mute, 3 solo)
TablePath(n, choice) == <<TableVolume, TableMute, TableSolo>>[choice][n]

ChoiceNumerals == << <<"1">>, <<"2">>, <<"3">> >>

Activities == <<"volume", "mute", "solo">>

\* C6: for every accepted channel (1..16, master, aux) and every activity,
\* the mapping map_control returns carries the activity and exactly the
\* osc_path of the derivation table, numbered channels zero-padded to two
\* digits.
WizardDerivation ==
  cb.pc = "asked" =>
    \A choice \in 1..3 :
      cb.choice_answer = ChoiceNumerals[choice] =>
        /\ \A n \in 1..16 :
             cb.channel_answer = Numerals[n] =>
               /\ Get(cb.mapping, "activity") = PyStr(Activities[choice])
               /\ Get(cb.mapping, "channel") = PyInt(n)
               /\ Get(cb.mapping, "osc_path") = PyStr(TablePath(n, choice))
        /\ cb.channel_answer = Master =>
             /\ Get(cb.mapping, "activity") = PyStr(Activities[choice])
             /\ Get(cb.mapping, "osc_path") = PyStr(TableMaster[choice])
        /\ cb.channel_answer = Aux =>
             /\ Get(cb.mapping, "activity") = PyStr(Activities[choice])
             /\ Get(cb.mapping, "osc_path") = PyStr(TableAux[choice])

\* channel 7 was mapped to volume
WizardDerivationWitness ==
  /\ cb.pc = "asked"
  /\ cb.channel_answer = <<"7">>
  /\ cb.choice_answer = <<"1">>
  /\ Get(cb.mapping, "osc_path") = PyStr("/ch/07/mix/fader")

(***************************************************************************)
(* Properties of the learn session.                                        *)
(***************************************************************************)
LearnSession == learn_mode \/ force_learn_mode

\* the store's entry for the key is a Mapped entry
IsMapped(store, key) ==
  Has(store, key) /\ Get(Get(store, key), "activity") # PyNone

\* the delivered event has a value payload of zero
ZeroValue(bytes) == Len(bytes) > 2 /\ bytes[3] = 0

\* the condition of the claim for an event that is delivered
ShouldElicit(bytes) ==
  /\ ~ZeroValue(bytes)
  /\ \/ ~Has(controls, KeyOf(bytes))
     \/ ~IsMapped(controls, KeyOf(bytes))
     \/ force_learn_mode

\* C7: whenever the session can take an event, the event starts an
\* elicitation for its identity if and only if its value payload is not zero
\* and its identity is absent from the store, or its entry has activity
\* null, or the session is force-learn; and an elicitation starts in no other
\* way than by one delivered event.  So a non-force session re-offers an
\* Unmapped identity on every such event until it is Mapped, and a
\* force-learn session re-offers it whatever its mapping.
LearnQualification ==
  /\ [] ( (Alive /\ callback = "learn" /\ cb = Idle) =>
            \A bytes \in LearnMsgs \ {<<>>} :
              ShouldElicit(bytes) <=>
                ENABLED ( /\ learn_midi_callback(bytes)
                          /\ cb'.pc = "eliciting"
                          /\ cb'.key = KeyOf(bytes) ) )
  /\ [][ (cb'.pc = "eliciting" /\ cb.pc # "eliciting") =>
           \E bytes \in LearnMsgs \ {<<>>} :
             learn_midi_callback(bytes) /\ cb'.key = KeyOf(bytes) ]_vars

\* a non-force session offers again a control whose elicitation it cancelled
\* before
LearnQualificationWitness ==
  /\ ~force_learn_mode
  /\ cb.pc = "eliciting"
  /\ Get(controls, cb.key) = Unmapped
  /\ ~Has(load_controls(file), cb.key)

\* C8 as stated: once the interrupt has ended a learn session, the callback
\* is cancelled, controls.json holds exactly the in-memory store with its
\* keys sorted, the reported count is the number of stored controls and the
\* exit status is success.
InterruptPersistsStore ==
  (LearnSession /\ pc = "exited") =>
    /\ callback = "none"
    /\ status = "exit0"
    /\ file = FileOf(JsonDump(SortedDict(controls)))
    /\ reported = Len(controls.dict)

\* no elicitation is in progress and the termination handler has not run
Quiescent ==
  /\ LearnSession
  /\ callback = "learn"
  /\ pc \in {"loop", "crashed"}
  /\ cb = Idle

\* C9 as stated: whenever no elicitation is in progress, every entry of the
\* in-memory store is in controls.json, so a crash loses nothing but the
\* control in flight.
CrashLosesNothingWritten ==
  Quiescent =>
    \A i \in DOMAIN controls.dict :
      /\ IsDoc(file)
      /\ Has(load_controls(file), controls.dict[i][1])
      /\ Get(load_controls(file), controls.dict[i][1]) = controls.dict[i][2]

\* C9 amended: whenever no elicitation is in progress, every Mapped entry of
\* the in-memory store is in controls.json; what a crash can lose besides the
\* control in flight are the Unmapped sentinels of cancelled elicitations.
CrashKeepsMapped ==
  Quiescent =>
    \A i \in DOMAIN controls.dict :
      IsMapped(controls, controls.dict[i][1]) =>
        /\ IsDoc(file)
        /\ Has(load_controls(file), controls.dict[i][1])
        /\ Get(load_controls(file), controls.dict[i][1]) = controls.dict[i][2]

\* the session crashed after one elicitation succeeded and a later one was
\* cancelled
CrashKeepsMappedWitness ==
  /\ Quiescent /\ pc = "crashed"
  /\ \E i \in DOMAIN controls.dict :
       controls.dict[i][2] = Mapping(PyInt(5), "mute")
  /\ \E i \in DOMAIN controls.dict :
       /\ controls.dict[i][2] = Unmapped
       /\ IsDoc(file)
       /\ Get(load_controls(file), controls.dict[i][1]) # Unmapped

(***************************************************************************)
(* save_controls and load_controls on their own, applied to stores of      *)
(* every shape a store takes.                                              *)
(***************************************************************************)
RoundTripKeys == <<KeyOf(<<176, 7>>), KeyOf(<<144>>)>>

\* Unmapped sentinels and Mapped entries: every activity with the first and
\* the last numbered channel, master and aux
RoundTripEntries ==
  {Unmapped}
  \cup {Mapping(c, t) : c \in {PyInt(1), PyInt(16), PyStr("master"), PyStr("aux")},
                        t \in {"volume", "mute", "solo"}}

\* the stores of at most two controls, in either key order
RoundTripStores ==
  {EmptyDict}
  \cup {PyDict(<< <<RoundTripKeys[i], e>> >>) : i \in 1..2, e \in RoundTripEntries}
  \cup {PyDict(<< <<RoundTripKeys[i], e>>, <<RoundTripKeys[3 - i], f>> >>) :
          i \in 1..2, e \in RoundTripEntries, f \in RoundTripEntries}

InitRoundTrip ==
  /\ learn_mode = TRUE
  /\ force_learn_mode = FALSE
  /\ pc = "devices"
  /\ status = ""
  /\ xr18_ip = "192.168.1.100"
  /\ port_open = FALSE
  /\ callback = "none"
  /\ controls \in RoundTripStores
  /\ file = NoFile
  /\ button_states = <<>>
  /\ osc = <<>>
  /\ log = <<>>
  /\ cb = Idle
  /\ sorted_controls = EmptyDict
  /\ reported = -1

\* save_controls(controls), lines 40-43
SaveStore ==
  /\ file' = save_controls(controls)
  /\ UNCHANGED << learn_mode, force_learn_mode, pc, status, xr18_ip, port_open,
                  callback, controls, button_states, osc, log, cb,
                  sorted_controls, reported >>

\* controls = load_controls(), lines 45-52
LoadStore ==
  /\ controls' = load_controls(file)
  /\ UNCHANGED << learn_mode, force_learn_mode, pc, status, xr18_ip, port_open,
                  callback, file, button_states, osc, log, cb,
                  sorted_controls, reported >>

NextRoundTrip == SaveStore \/ LoadStore

SpecRoundTrip == InitRoundTrip /\ [][NextRoundTrip]_vars

\* two stores hold the same entries under the same keys, in whatever order
SameContent(a, b) ==
  /\ \A i \in DOMAIN a.dict :
       Has(b, a.dict[i][1]) /\ Get(b, a.dict[i][1]) = a.dict[i][2]
  /\ \A i \in DOMAIN b.dict :
       Has(a, b.dict[i][1]) /\ Get(a, b.dict[i][1]) = b.dict[i][2]

\* C11: loading what was saved from a store S of Unmapped sentinels and
\* Mapped entries gives the content of S, and a file that was loaded, saved
\* and loaded again gives the content it gave the first time.
RoundTrip ==
  /\ SameContent(load_controls(save_controls(controls)), controls)
  /\ IsDoc(file) =>
       /\ SameContent(load_controls(file), controls)
       /\ SameContent(load_controls(save_controls(load_controls(file))),
                      load_controls(file))

\* a store with a numbered channel and a sentinel, in unsorted key order, was
\* saved
RoundTripWitness ==
  /\ IsDoc(file)
  /\ controls = PyDict(<< <<KeyOf(<<176, 7>>), Mapping(PyInt(16), "solo")>>,
                          <<KeyOf(<<144>>), Unmapped>> >>)
  /\ load_controls(file) = controls

(***************************************************************************)
(* map_controls: the batch flow over the controls that are still unmapped. *)
(***************************************************************************)
\* a store with three controls waiting for a mapping
StoreC ==
  PyDict(<< <<KeyOf(<<144, 60>>), Unmapped>>,
            <<KeyOf(<<176, 7>>), Mapping(PyInt(7), "mute")>>,
            <<KeyOf(<<176, 20>>), Unmapped>>,
            <<KeyOf(<<176, 9>>), Unmapped>> >>)

\* a store with nothing left to map
StoreD ==
  PyDict(<< <<KeyOf(<<176, 7>>), Mapping(PyInt(7), "mute")>>,
            <<KeyOf(<<144, 60>>), Mapping(PyStr("master"), "volume")>> >>)

BatchFiles == InitFiles \cup {save_controls(StoreC), save_controls(StoreD)}

BatchChannelAnswers ==
  { <<"5">>, <<"1", "6">>, <<"1", "7">>, <<"x">>,
    <<" ", "M", "A", "S", "T", "E", "R", " ">>, <<"a", "u", "x">> }

BatchChoiceAnswers == { <<"1">>, <<"2">>, <<"3">>, <<"4">>, <<"x">> }

\* the keys of the entries whose activity is None, in store order (line 60)
unmapped(controls_) ==
  LET Pending(item) == Get(item[2], "activity") = PyNone
      items == SelectSeq(controls_.dict, Pending)
  IN [i \in 1..Len(items) |-> items[i][1]]

\* the format code 02d applied to a channel that is a str raises ValueError
\* (lines 101-105, evaluated for every channel before the master/aux test)
FormatRaises(channel) == "str" \in DOMAIN channel

InitBatch ==
  /\ learn_mode = FALSE
  /\ force_learn_mode = FALSE
  /\ pc = "batch_load"
  /\ status = ""
  /\ xr18_ip = "192.168.1.100"
  /\ port_open = FALSE
  /\ callback = "none"
  /\ controls = EmptyDict
  /\ file \in BatchFiles
  /\ button_states = <<>>
  /\ osc = <<>>
  /\ log = <<>>
  /\ cb = Idle
  /\ sorted_controls = EmptyDict
  /\ reported = -1

\* lines 56-65: load, return on an empty store or when nothing is pending
BatchLoad ==
  /\ pc = "batch_load"
  /\ IF LoadRaises(file)
     THEN /\ pc' = "crashed" /\ status' = "crashed"
          /\ UNCHANGED << controls, cb >>
     ELSE /\ controls' = load_controls(file)
          /\ IF ~Truthy(controls')
             THEN pc' = "returned" /\ status' = "no_controls" /\ cb' = cb
             ELSE IF unmapped(controls') = <<>>
             THEN pc' = "returned" /\ status' = "all_mapped" /\ cb' = cb
             ELSE /\ pc' = "batch_loop" /\ status' = status
                  /\ cb' = [pc |-> "batch", pending |-> unmapped(controls'),
                            answers |-> <<>>]
  /\ UNCHANGED << learn_mode, force_learn_mode, xr18_ip, port_open, callback,
                  file, button_states, osc, log, sorted_controls, reported >>

\* one round of the loop, lines 67-132; answers records what the operator
\* typed for each key
BatchAnswer(channel_answer, choice_answer) ==
  /\ pc = "batch_loop"
  /\ cb.pending # <<>>
  /\ LET control_key == Head(cb.pending)
         c == ParseChannel(channel_answer)
         t == ParseChoice(choice_answer)
         next == [cb EXCEPT !.pending = Tail(@),
                            !.answers = Append(@, [key |-> control_key,
                                   channel_answer |-> channel_answer,
                                   choice_answer |-> choice_answer])]
     IN IF ~c.ok \/ ~t.ok
        THEN /\ cb' = next
             /\ UNCHANGED << pc, status, controls >>
        ELSE IF FormatRaises(c.channel)
        THEN /\ pc' = "crashed" /\ status' = "crashed"
             /\ cb' = next
             /\ UNCHANGED controls
        ELSE /\ controls' = SetItem(controls, control_key,
                                    Mapping(c.channel, t.control_type))
             /\ cb' = next
             /\ UNCHANGED << pc, status >>
  /\ UNCHANGED << learn_mode, force_learn_mode, xr18_ip, port_open, callback,
                  file, button_states, osc, log, sorted_controls, reported >>

\* the save after the loop, line 134
BatchSave ==
  /\ pc = "batch_loop"
  /\ cb.pending = <<>>
  /\ file' = save_controls(controls)
  /\ pc' = "returned"
  /\ status' = "saved"
  /\ UNCHANGED << learn_mode, force_learn_mode, xr18_ip, port_open, callback,
                  controls, button_states, osc, log, cb, sorted_controls,
                  reported >>

NextBatch ==
  \/ BatchLoad
  \/ \E channel_answer \in BatchChannelAnswers,
        choice_answer \in BatchChoiceAnswers :
          BatchAnswer(channel_answer, choice_answer)
  \/ BatchSave

SpecBatch == InitBatch /\ [][NextBatch]_vars

\* the answers the wizard accepts, and the table's osc_path for them
BatchChannelOf(answer) ==
  CASE answer = <<"5">> -> 5
    [] answer = <<"1", "6">> -> 16
    [] answer = <<" ", "M", "A", "S", "T", "E", "R", " ">> -> -1
    [] answer = <<"a", "u", "x">> -> -2
    [] OTHER -> 0

BatchChoiceOf(answer) ==
  CASE answer = <<"1">> -> 1
    [] answer = <<"2">> -> 2
    [] answer = <<"3">> -> 3
    [] OTHER -> 0

BatchTablePath(ch, choice) ==
  CASE ch = -1 -> TableMaster[choice]
    [] ch = -2 -> TableAux[choice]
    [] OTHER -> TablePath(ch, choice)

\* C12: the batch flow never stops before the final save; every key
\* answered with an accepted channel (1..16, master, aux) and an accepted
\* function is Mapped with the table's osc_path, every key answered with
\* anything else is still Unmapped, every entry with activity null is
\* enumerated, and the final save writes the resulting store.
BatchMapsPending ==
  /\ status # "crashed"
  /\ pc = "batch_loop" =>
       /\ \A i \in DOMAIN cb.answers :
            LET a == cb.answers[i]
                ch == BatchChannelOf(a.channel_answer)
                choice == BatchChoiceOf(a.choice_answer)
                entry == Get(controls, a.key)
            IN IF ch # 0 /\ choice # 0
               THEN /\ Get(entry, "activity") = PyStr(Activities[choice])
                    /\ Get(entry, "osc_path") = PyStr(BatchTablePath(ch, choice))
               ELSE entry = Unmapped
       /\ \A k \in {controls.dict[i][1] : i \in DOMAIN controls.dict} :
            Get(load_controls(file), k) = Unmapped =>
              \/ \E i \in DOMAIN cb.answers : cb.answers[i].key = k
              \/ \E i \in DOMAIN cb.pending : cb.pending[i] = k
  /\ status = "saved" => load_controls(file) = controls

(***************************************************************************)
(* Normal mode: start-up with an empty or missing store.                   *)
(***************************************************************************)
\* the run went past the device selection with both devices found
DevicesOpened ==
  /\ pc \in {"loop", "exited", "returned", "crashed"}
  /\ status \notin {"aborted", "no_device"}

\* C13: in normal mode the callback is registered only with a non-empty
\* loaded store; with an empty or missing store the run reports that and
\* returns with the port closed, no callback registered, no event
\* translated and no OSC message sent besides /xremote.
EmptyStoreEndsRun ==
  NormalMode =>
    /\ callback = "normal" =>
         load_controls(file) # EmptyDict /\ controls = load_controls(file)
    /\ load_controls(file) = EmptyDict =>
         /\ callback = "none"
         /\ log = <<>>
         /\ button_states = <<>>
         /\ \A i \in DOMAIN osc : osc[i] = XRemote
         /\ DevicesOpened => status = "no_controls" /\ pc = "returned" /\ ~port_open
    /\ status = "no_controls" => load_controls(file) = EmptyDict

\* a run that found no controls.json and ended after /xremote
EmptyStoreEndsRunWitness ==
  /\ NormalMode
  /\ file = NoFile
  /\ status = "no_controls"
  /\ osc = <<XRemote>>

(***************************************************************************)
(* The answers map_control rejects.                                        *)
(***************************************************************************)
\* channel answers that are integers outside 1..16
ChannelOutOfRange == { <<"0">>, <<"1", "7">>, <<"-", "1">> }

\* channel answers that are neither an integer nor master or aux
ChannelNotAToken == { <<"x">>, <<>> }

\* function answers that are integers outside {1, 2, 3}
ChoiceOutOfRange == { <<"0">>, <<"4">> }

\* function answers that are not numeric
ChoiceNotNumeric == { <<"x">>, <<>> }

\* C14: map_control returns None exactly when the channel answer is an
\* integer outside 1..16, or neither an integer nor master or aux, or the
\* function answer is not numeric or outside {1, 2, 3}; every other pair of
\* answers returns a Mapped entry.  One invocation reads each answer once.
WizardCancels ==
  cb.pc = "asked" =>
    /\ cb.mapping = PyNone <=>
         \/ cb.channel_answer \in ChannelOutOfRange
         \/ cb.channel_answer \in ChannelNotAToken
         \/ cb.choice_answer \in ChoiceOutOfRange
         \/ cb.choice_answer \in ChoiceNotNumeric
    /\ cb.mapping # PyNone =>
         /\ \E choice \in 1..3 :
              Get(cb.mapping, "activity") = PyStr(Activities[choice])
         /\ Get(cb.mapping, "channel") \in
              {PyInt(n) : n \in 1..16} \cup {PyStr("master"), PyStr("aux")}
         /\ Has(cb.mapping, "osc_path")

\* channel 17 was answered with a valid function and the wizard cancelled
WizardCancelsWitness ==
  /\ cb.pc = "asked"
  /\ cb.channel_answer = <<"1", "7">>
  /\ cb.choice_answer = <<"2">>
  /\ cb.mapping = PyNone

(***************************************************************************)
(* The cancelled elicitation.                                              *)
(***************************************************************************)
\* the keys of a store
Keys(store) == {store.dict[i][1] : i \in DOMAIN store.dict}

\* the callback leaves line 217 with None from map_control
CancelledStep == cb.pc = "got" /\ cb.mapping = PyNone /\ cb' # cb

\* C15: when the elicitation for K is cancelled, K's in-memory entry becomes
\* the Unmapped sentinel whatever it was, every other entry is unchanged, no
\* key is removed, the persisted store is not written, and the callback
\* returns, so that the next event can be delivered.
CancelWritesSentinel ==
  /\ [][CancelledStep =>
          /\ Get(controls', cb.key) = Unmapped
          /\ Keys(controls') = Keys(controls) \cup {cb.key}
          /\ Len(controls'.dict) = Cardinality(Keys(controls'))
          /\ \A k \in Keys(controls) \ {cb.key} :
               Get(controls', k) = Get(controls, k)
          /\ file' = file
          /\ cb' = Idle]_vars
  /\ [](Alive /\ callback = "learn" /\ cb = Idle =>
          \A bytes \in LearnMsgs : ENABLED learn_midi_callback(bytes))

\* in a force session a control that the file held as Mapped was cancelled
\* and is now the sentinel
CancelWritesSentinelWitness ==
  /\ force_learn_mode
  /\ cb = Idle
  /\ IsDoc(file)
  /\ \E k \in Keys(controls) :
       /\ IsMapped(load_controls(file), k)
       /\ Get(controls, k) = Unmapped

(***************************************************************************)
(* Events the learn session passes over.                                   *)
(***************************************************************************)
\* the event has value 0, or its control is Mapped and the session is not a
\* force session
NonQualifying(bytes) ==
  \/ ZeroValue(bytes)
  \/ bytes # <<>> /\ ~force_learn_mode /\ IsMapped(controls, KeyOf(bytes))

\* C16: the delivery of a non-qualifying event starts no elicitation and
\* changes neither the in-memory store nor the persisted store; in a session
\* without force an in-memory entry that is Mapped is never changed.
NonQualifyingIgnored ==
  /\ [](\A bytes \in LearnMsgs :
          NonQualifying(bytes) =>
            ~ENABLED (/\ learn_midi_callback(bytes)
                      /\ \/ cb' # Idle
                         \/ controls' # controls
                         \/ file' # file))
  /\ [][~force_learn_mode =>
          \A k \in Keys(controls) :
            IsMapped(controls, k) =>
              Has(controls', k) /\ Get(controls', k) = Get(controls, k)]_vars

\* a session without force mapped the control 176_20 itself and waits for
\* the next event; an event with value 0 and one of 176_20 can be delivered
NonQualifyingIgnoredWitness ==
  /\ learn_mode /\ ~force_learn_mode
  /\ Get(controls, KeyOf(<<176, 20, 127>>)) = Mapping(PyInt(5), "mute")
  /\ Alive /\ callback = "learn" /\ cb = Idle
  /\ NonQualifying(<<176, 20, 127>>)
  /\ NonQualifying(<<176, 7, 0>>)
  /\ ENABLED learn_midi_callback(<<176, 20, 127>>)

(***************************************************************************)
(* Normal mode leaves the store alone.                                     *)
(***************************************************************************)
\* C17: in normal mode no step writes the persisted store, and once the
\* store is loaded no event and no interrupt changes the in-memory mapping;
\* the toggle states are empty until the first event of the run is handled.
NormalStoreFrozen ==
  /\ [][NormalMode =>
          /\ file' = file
          /\ callback = "normal" => controls' = controls]_vars
  /\ [](NormalMode =>
          /\ log = <<>> => button_states = <<>>
          /\ callback = "normal" \/ status = "exit0" =>
               controls = load_controls(file))

\* a normal run was interrupted after two events, one of which toggled a
\* button
NormalStoreFrozenWitness ==
  /\ NormalMode
  /\ status = "exit0"
  /\ Len(log) >= 2
  /\ button_states # <<>>
  /\ controls = load_controls(file)

(***************************************************************************)
(* The callback and the termination handler as writers of the store.       *)
(***************************************************************************)
\* the handler has taken its snapshot and has not yet left save_controls
HandlerSaving == pc \in {"h_open", "h_dump"}

\* the handler's save is complete
HandlerSaved == pc \in {"h_exit", "exited"}

\* C18 as stated: no write of the callback to the in-memory store or to
\* controls.json overlaps or follows the handler's final save, and the last
\* content of controls.json is the handler's sorted snapshot.
SingleWriter ==
  LearnSession =>
    /\ HandlerSaving => cb.pc # "save_dump"
    /\ HandlerSaving \/ HandlerSaved => SortedDict(controls) = sorted_controls
    /\ HandlerSaved => file = FileOf(JsonDump(sorted_controls))

(***************************************************************************)
(* The reachability loop.                                                  *)
(***************************************************************************)
\* the run is in the loop of lines 273-285
InReachabilityLoop == pc \in {"probe", "prompt"}

\* C19: a probe either succeeds or is followed by the prompt; the prompt is
\* followed by a new probe of the address entered or, on empty input, by the
\* end of the run; the loop is left in no other way; no OSC message is sent
\* before a probe has succeeded, and /xremote is sent with the step that
\* leaves the loop on success; a run ended on empty input has sent nothing
\* and opened no device.
ReachabilityLoop ==
  /\ [][NormalMode =>
          /\ (pc = "probe" /\ pc' # pc) => pc' \in {"prompt", "devices"}
          /\ (pc = "prompt" /\ pc' # pc) =>
               \/ pc' = "probe" /\ xr18_ip' # "" /\ status' = status
               \/ pc' = "returned" /\ status' = "aborted" /\ xr18_ip' = xr18_ip
          /\ (InReachabilityLoop /\ ~InReachabilityLoop') =>
               \/ pc = "probe" /\ pc' = "devices" /\ osc' = <<XRemote>>
               \/ pc = "prompt" /\ status' = "aborted" /\ osc' = <<>>
          /\ (osc = <<>> /\ osc' # <<>>) => pc = "probe" /\ pc' = "devices"]_vars
  /\ [](NormalMode /\ (InReachabilityLoop \/ status = "aborted") =>
          /\ osc = <<>>
          /\ ~port_open
          /\ callback = "none"
          /\ controls = EmptyDict)

\* the first probe failed, the operator entered another address, the probe
\* of that address failed too and the operator gave up
ReachabilityLoopWitness ==
  /\ NormalMode
  /\ status = "aborted"
  /\ xr18_ip = "10.0.0.2"
  /\ osc = <<>>
  /\ ~port_open

(***************************************************************************)
(* Toggle states of different controls.                                    *)
(***************************************************************************)
\* the presses the control with the key has received since the run began
PressesOf(key) == {i \in Presses : KeyOf(log[i].bytes) = key}

\* the controls the store maps to Mute or Solo
Buttons ==
  {k \in Keys(controls) :
     Get(Get(controls, k), "activity") \in {PyStr("mute"), PyStr("solo")}}

\* C20: an event changes the toggle state of no control but its own, so the
\* state of every Mute and Solo control is true exactly when the control has
\* received an odd number of presses (events with a non-zero value) since
\* the run began.
ToggleIndependence ==
  NormalMode =>
    /\ \A i \in DOMAIN log :
         \A k \in (DOMAIN log[i].before) \cup (DOMAIN log[i].after) :
           (log[i].bytes = <<>> \/ k # KeyOf(log[i].bytes)) =>
             /\ k \in DOMAIN log[i].before
             /\ k \in DOMAIN log[i].after
             /\ log[i].after[k] = log[i].before[k]
    /\ \A k \in Buttons :
         StateOf(button_states, k) = (Cardinality(PressesOf(k)) % 2 = 1)
    /\ DOMAIN button_states \subseteq Buttons

\* one button was pressed twice with a press of another button in between:
\* the first is off again, the other is on
ToggleIndependenceWitness ==
  /\ NormalMode
  /\ Len(log) >= 3
  /\ \E k1 \in Buttons, k2 \in Buttons :
       /\ k1 # k2
       /\ PressesOf(k1) = {1, 3}
       /\ PressesOf(k2) = {2}
       /\ StateOf(button_states, k1) = FALSE
       /\ StateOf(button_states, k2) = TRUE

====
